---- MODULE Spec2Model ----
(***************************************************************************)
(* A model of inst/support/dogo.py: the OBO stanza parser (parse_obo),     *)
(* the synonym tag parser (parse_synonym_tag), the transitive closure      *)
(* (transitive_closure), the builder (build) and the command line entry.   *)
(***************************************************************************)
EXTENDS Integers, Sequences, FiniteSets, Bags, TLC

VARIABLES
    pc,            \* position of the running function
    direct_edges,  \* transitive_closure: the argument {parent: [child, ...]}
    children,      \* transitive_closure: parent -> set of children
    all_nodes,     \* transitive_closure: every node seen as parent or child
    todo,          \* transitive_closure: nodes the outer for loop has not reached
    ancestor,      \* transitive_closure: the outer loop variable (0: not yet bound)
    visited,       \* transitive_closure: visited set of the running traversal
    queue,         \* transitive_closure: the frontier (a list popped at its end)
    pairs,         \* transitive_closure: the result list, as the bag of its elements
                   \* (its order is the iteration order of sets, which Python leaves open)
    expanded,      \* history: how often each node was expanded in this traversal
    file,          \* parse_obo: the lines of the input file
    pos,           \* parse_obo: index of the next line the for loop reads
    stanza,        \* parse_obo: the open stanza (open = FALSE: None)
    yielded,       \* parse_obo: the records yielded so far
    syn_parts,     \* parse_synonym_tag: the pieces the argument is made of
    syn_raw,       \* parse_synonym_tag: the argument
    syn_result,    \* parse_synonym_tag: the returned (label, scope)
    nargs,         \* command line: the number of positional arguments
    terms,         \* build: the active stanzas
    obsolete,      \* build: the obsolete stanzas
    active_ids,    \* build: the identifiers of the active stanzas
    term_rows,     \* build: the active-term rows
    syn_rows,      \* build: the synonym rows
    parent_rows,   \* build: per partition, the rows (child, parent, type)
    direct_children, \* build: per partition, {parent: [child, ...]}
    part,          \* build: the partition the loop of line 357 is at
    store,         \* the output store
    exit_status,   \* the exit status of the process (-1: still running)
    error,         \* what ended the process early ("": nothing)
    raised_at      \* the step that ended the process early ("": none)

tcVars == <<direct_edges, children, all_nodes, todo, ancestor, visited,
            queue, pairs, expanded>>

poVars == <<file, pos, stanza, yielded>>

synVars == <<syn_parts, syn_raw, syn_result>>

bVars == <<nargs, terms, obsolete, active_ids, term_rows, syn_rows, parent_rows,
           direct_children, part, store, exit_status, error, raised_at>>

notTC == <<poVars, synVars, bVars>>

notPO == <<tcVars, synVars, bVars>>

notSyn == <<tcVars, poVars, bVars>>

notBuild == <<tcVars, poVars, synVars>>

vars == <<pc, tcVars, poVars, synVars, bVars>>

-----------------------------------------------------------------------------
(* Generic helpers                                                         *)

Range(s) == {s[i] : i \in DOMAIN s}

SeqsUpTo(S, n) == UNION {[1..k -> S] : k \in 0..n}

\* every list holding the elements of the set S once each (a set's iteration order)
Orders(S) == {q \in [1..Cardinality(S) -> S] : Range(q) = S}

-----------------------------------------------------------------------------
(* transitive_closure                                                      *)

NumNodes == 3
MaxEdges == 3

Node == 1..NumNodes

\* the child lists of j entries, a child repeated or not. Line 100 adds each
\* entry to a set and the function reads a list nowhere else, so of the lists
\* with the same entries one is taken, the ascending one
ChildLists(j) ==
    {l \in [1..j -> Node] : \A i \in 1..(j - 1) : l[i] <= l[i + 1]}

\* the adjacency inputs {parent: [child, ...]} over the nodes S whose child lists
\* hold at most k entries together; as in build (lines 340, 349), where a key is
\* created by the append of its first child, no key has an empty list
RECURSIVE AdjacencyUpTo(_, _)
AdjacencyUpTo(S, k) ==
    IF S = {} THEN {<<>>}
    ELSE LET p == CHOOSE x \in S : TRUE IN
         AdjacencyUpTo(S \ {p}, k) \cup
         UNION {{(p :> l) @@ d : l \in ChildLists(j), d \in AdjacencyUpTo(S \ {p}, k - j)}
                : j \in 1..k}

AdjacencyInputs == AdjacencyUpTo(Node, MaxEdges)

\* children[parent].add(ch): a key exists only for a parent with a child
BuildChildren(d) ==
    [p \in {k \in DOMAIN d : d[k] # <<>>} |-> Range(d[p])]

BuildAllNodes(d) ==
    DOMAIN d \cup UNION {Range(d[p]) : p \in DOMAIN d}

\* children.get(node, [])
ChildrenGet(ch, n) == IF n \in DOMAIN ch THEN ch[n] ELSE {}

\* queue.pop(): the list without its last element
PopKeep(q) == q

PopRest(q) == SubSeq(q, 1, Len(q) - 1)

\* `if node in visited: continue`
InVisitedNever(n, v) == FALSE

InVisited(n, v) == n \in v

IdleTC ==
    /\ direct_edges = <<>>
    /\ children = <<>>
    /\ all_nodes = {}
    /\ todo = {}
    /\ ancestor = 0
    /\ visited = {}
    /\ queue = <<>>
    /\ pairs = EmptyBag
    /\ expanded = [n \in Node |-> 0]

-----------------------------------------------------------------------------
(* the output store and the idle state of build                            *)

\* lines 326, 351-355: the three partitions, in the order of ns_tables
Partitions == <<"BP", "MF", "CC">>

EmptyPartitions == [i \in DOMAIN Partitions |-> <<>>]

\* lines 122-221: the tables of the schema
ParentsTable(ns) ==
    IF ns = "BP" THEN "go_bp_parents" ELSE IF ns = "MF" THEN "go_mf_parents"
    ELSE "go_cc_parents"

OffspringTable(ns) ==
    IF ns = "BP" THEN "go_bp_offspring" ELSE IF ns = "MF" THEN "go_mf_offspring"
    ELSE "go_cc_offspring"

TableNames ==
    {"go_ontology", "go_term", "go_obsolete", "go_synonym", "map_counts"}
    \cup {ParentsTable(Partitions[i]) : i \in DOMAIN Partitions}
    \cup {OffspringTable(Partitions[i]) : i \in DOMAIN Partitions}

EmptyTables == [t \in TableNames |-> <<>>]

\* the store: whether the file exists, whether the schema is in place, the rows of
\* the open transaction (txn) and the committed rows (db)
NoStore == [exists |-> FALSE, schema |-> FALSE, txn |-> EmptyTables, db |-> EmptyTables]

IdleBuild ==
    /\ nargs = 0
    /\ terms = <<>>
    /\ obsolete = <<>>
    /\ active_ids = {}
    /\ term_rows = <<>>
    /\ syn_rows = <<>>
    /\ parent_rows = EmptyPartitions
    /\ direct_children = EmptyPartitions
    /\ part = 0
    /\ store = NoStore
    /\ exit_status = -1
    /\ error = ""
    /\ raised_at = ""

-----------------------------------------------------------------------------
(* parse_obo                                                               *)
(* A line is the sequence of its pieces: punctuation characters and words.  *)

SP == " "

\* line.startswith(prefix)
StartsWith(line, prefix) ==
    /\ Len(line) >= Len(prefix)
    /\ SubSeq(line, 1, Len(prefix)) = prefix

TermMarker == <<"[", "Term", "]">>

\* line 42
IsTermMarker(line) == StartsWith(line, TermMarker)

\* line 46, reached when line 42 did not match
IsOtherMarker(line) ==
    /\ ~IsTermMarker(line)
    /\ Len(line) >= 1
    /\ line[1] = "["
    /\ line[Len(line)] = "]"

\* the positions where ": " starts
ColonSpaceAt(line) ==
    {i \in 1..(Len(line) - 1) : line[i] = ":" /\ line[i + 1] = SP}

\* `": " in line`
HasColonSpace(line) == ColonSpaceAt(line) # {}

Min(S) == CHOOSE x \in S : \A y \in S : x <= y

\* line.partition(": "): the text before and after the first ": "
TagOf(line) == SubSeq(line, 1, Min(ColonSpaceAt(line)) - 1)

RawValueOf(line) == SubSeq(line, Min(ColonSpaceAt(line)) + 2, Len(line))

\* re.sub(r"\s+!.*$", "", value): cut at the first run of blanks that a "!" follows
CommentAt(v) ==
    {i \in 1..Len(v) :
        /\ v[i] = SP
        /\ \E j \in (i + 1)..Len(v) :
              /\ v[j] = "!"
              /\ \A k \in i..(j - 1) : v[k] = SP}

StripComment(v) ==
    IF CommentAt(v) = {} THEN v ELSE SubSeq(v, 1, Min(CommentAt(v)) - 1)

\* str.strip()
RECURSIVE LStrip(_)
LStrip(v) == IF v # <<>> /\ Head(v) = SP THEN LStrip(Tail(v)) ELSE v

RECURSIVE RStrip(_)
RStrip(v) ==
    IF v # <<>> /\ v[Len(v)] = SP THEN RStrip(SubSeq(v, 1, Len(v) - 1)) ELSE v

Strip(v) == LStrip(RStrip(v))

\* line 54
StoredValue(line) == Strip(StripComment(RawValueOf(line)))

\* lines 35-36
Multi ==
    {<<"synonym">>, <<"is_a">>, <<"relationship">>, <<"alt_id">>, <<"consider">>,
     <<"replaced_by">>, <<"subset">>, <<"xref">>, <<"property_value">>}

\* a stanza is a defaultdict(list): a function on the tags it holds
DictGet(d, k, default) == IF k \in DOMAIN d THEN d[k] ELSE default

DictPut(d, k, v) == [x \in DOMAIN d \cup {k} |-> IF x = k THEN v ELSE d[x]]

\* lines 55-58
StoreTagLast(rec, tag, value) ==
    IF tag \in Multi
    THEN DictPut(rec, tag, <<value>>)
    ELSE DictPut(rec, tag, value)

StoreTag(rec, tag, value) ==
    IF tag \in Multi
    THEN DictPut(rec, tag, Append(DictGet(rec, tag, <<>>), value))
    ELSE DictPut(rec, tag, value)

NoStanza == [open |-> FALSE, rec |-> <<>>]

NewStanza == [open |-> TRUE, rec |-> <<>>]

\* lines 43-44, 48-49, 59-60: `if stanza is not None: yield stanza`
Flush(st, out) == IF st.open THEN Append(out, st.rec) ELSE out

\* line 50: a non-Term marker leaves no stanza open
AfterOtherMarkerOpen(st) == st

AfterOtherMarker(st) == NoStanza

\* one pass of the for loop of lines 40-58 over `line`
ParseLine(st, out, line) ==
    IF IsTermMarker(line) THEN [stanza |-> NewStanza, out |-> Flush(st, out)]
    ELSE IF IsOtherMarker(line)
    THEN [stanza |-> AfterOtherMarker(st), out |-> Flush(st, out)]
    ELSE IF st.open /\ HasColonSpace(line)
    THEN [stanza |-> [open |-> TRUE,
                      rec |-> StoreTag(st.rec, TagOf(line), StoredValue(line))],
          out |-> out]
    ELSE [stanza |-> st, out |-> out]

\* the records parse_obo yields over a whole file
RECURSIVE ParseFrom(_, _, _, _)
ParseFrom(lines, i, st, out) ==
    IF i > Len(lines) THEN Flush(st, out)
    ELSE LET r == ParseLine(st, out, lines[i])
         IN  ParseFrom(lines, i + 1, r.stanza, r.out)

ParseObo(lines) == ParseFrom(lines, 1, NoStanza, <<>>)

MaxLines == 4

\* the lines the parser is run on
ParserLines ==
    { <<"[", "Term", "]">>,
      <<"[", "Term", "]", "x">>,
      <<"[", "Typedef", "]">>,
      <<"[", "Typedef", "]", SP>>,
      <<"is_a", ":", SP, "GO:", "1">>,
      <<"is_a", ":", SP, "GO:", "2", SP, "!", SP, "two">>,
      <<"is_a", ":", SP, SP, "!", "none">>,
      <<"name", ":", SP, "a">>,
      <<"name", ":", SP, SP, "b", SP>>,
      <<"name", ":", "c">>,
      <<>> }

IdlePO ==
    /\ file = <<>>
    /\ pos = 0
    /\ stanza = NoStanza
    /\ yielded = <<>>

IdleSyn ==
    /\ syn_parts = <<>>
    /\ syn_raw = <<>>
    /\ syn_result = <<>>

InitPO ==
    /\ pc = "start"
    /\ file \in SeqsUpTo(ParserLines, MaxLines)
    /\ pos = 1
    /\ stanza = NoStanza
    /\ yielded = <<>>
    /\ IdleTC
    /\ IdleSyn
    /\ IdleBuild

\* lines 42-45
POTermMarker ==
    /\ pc = "start"
    /\ pos <= Len(file)
    /\ IsTermMarker(file[pos])
    /\ yielded' = Flush(stanza, yielded)
    /\ stanza' = NewStanza
    /\ pos' = pos + 1
    /\ UNCHANGED <<pc, file, notPO>>

\* lines 46-50
POOtherMarker ==
    /\ pc = "start"
    /\ pos <= Len(file)
    /\ IsOtherMarker(file[pos])
    /\ yielded' = Flush(stanza, yielded)
    /\ stanza' = AfterOtherMarker(stanza)
    /\ pos' = pos + 1
    /\ UNCHANGED <<pc, file, notPO>>

\* lines 51-58
POTagLine ==
    /\ pc = "start"
    /\ pos <= Len(file)
    /\ ~IsTermMarker(file[pos])
    /\ ~IsOtherMarker(file[pos])
    /\ stanza.open
    /\ HasColonSpace(file[pos])
    /\ stanza' = [open |-> TRUE,
                  rec |-> StoreTag(stanza.rec, TagOf(file[pos]), StoredValue(file[pos]))]
    /\ pos' = pos + 1
    /\ UNCHANGED <<pc, file, yielded, notPO>>

\* line 51 false: no stanza is open, or the line holds no ": "
POSkipLine ==
    /\ pc = "start"
    /\ pos <= Len(file)
    /\ ~IsTermMarker(file[pos])
    /\ ~IsOtherMarker(file[pos])
    /\ ~(stanza.open /\ HasColonSpace(file[pos]))
    /\ pos' = pos + 1
    /\ UNCHANGED <<pc, file, stanza, yielded, notPO>>

\* lines 59-60
POEndOfInput ==
    /\ pc = "start"
    /\ pos > Len(file)
    /\ yielded' = Flush(stanza, yielded)
    /\ pc' = "done"
    /\ UNCHANGED <<file, pos, stanza, notPO>>

NextPO ==
    \/ POTermMarker
    \/ POOtherMarker
    \/ POTagLine
    \/ POSkipLine
    \/ POEndOfInput

SpecPO == InitPO /\ [][NextPO]_vars

\* the block structure of a file, read off the file: where the markers stand,
\* where the block of the [Term] marker at i ends, and the tag lines it holds
MarkerPositions(f) ==
    {i \in 1..Len(f) : IsTermMarker(f[i]) \/ IsOtherMarker(f[i])}

TermPositions(f) == {i \in 1..Len(f) : IsTermMarker(f[i])}

BlockEnd(f, i) == Min({j \in MarkerPositions(f) : j > i} \cup {Len(f) + 1})

IsTagLine(l) == ~IsTermMarker(l) /\ ~IsOtherMarker(l) /\ HasColonSpace(l)

BlockTagLines(f, i) ==
    SelectSeq(SubSeq(f, i + 1, BlockEnd(f, i) - 1), IsTagLine)

RECURSIVE RecordOf(_)
RecordOf(ls) ==
    IF ls = <<>> THEN <<>>
    ELSE LET l == ls[Len(ls)]
         IN  StoreTag(RecordOf(SubSeq(ls, 1, Len(ls) - 1)), TagOf(l), StoredValue(l))

RECURSIVE Ascending(_)
Ascending(S) ==
    IF S = {} THEN <<>> ELSE <<Min(S)>> \o Ascending(S \ {Min(S)})

Consumed == SubSeq(file, 1, pos - 1)

\* the [Term] blocks of the lines read so far that a later marker, or the end
\* of input, has closed
ClosedBlocks ==
    Ascending({i \in TermPositions(Consumed) :
                 pc = "done" \/ BlockEnd(Consumed, i) <= Len(Consumed)})

OpenBlocks ==
    {i \in TermPositions(Consumed) : BlockEnd(Consumed, i) > Len(Consumed)}

\* C3: parse_obo yields one record per [Term] block, in file order: a marker of
\* either kind flushes the open stanza, a non-Term marker yields nothing of its
\* own and leaves no stanza open (the tag lines after it are in no record), lines
\* outside an open stanza are ignored, and the end of input flushes the open stanza.
ParseYieldsBlocks ==
    /\ Len(yielded) = Len(ClosedBlocks)
    /\ \A k \in 1..Len(ClosedBlocks) :
          k <= Len(yielded) =>
              yielded[k] = RecordOf(BlockTagLines(Consumed, ClosedBlocks[k]))
    /\ pc # "done" =>
          /\ stanza.open <=> OpenBlocks # {}
          /\ \A i \in OpenBlocks : stanza.rec = RecordOf(BlockTagLines(Consumed, i))
    /\ pc = "done" => Len(yielded) = Cardinality(TermPositions(file))

\* a finished parse of a file with a [Term] block, then a non-Term marker with a
\* tag line after it, then another [Term] block
ParseYieldsBlocksWitness ==
    /\ pc = "done"
    /\ Len(yielded) = 2
    /\ \E j \in 2..(Len(file) - 2) :
          /\ IsOtherMarker(file[j])
          /\ IsTagLine(file[j + 1])
          /\ IsTermMarker(file[j + 2])
          /\ IsTermMarker(file[j - 1])

\* the values of the occurrences of tag t among the tag lines ls, in file order
RECURSIVE Occurrences(_, _)
Occurrences(ls, t) ==
    IF ls = <<>> THEN <<>>
    ELSE (IF TagOf(Head(ls)) = t THEN <<StoredValue(Head(ls))>> ELSE <<>>)
         \o Occurrences(Tail(ls), t)

\* C9: in every yielded record, a multi-valued tag that occurs N times in the
\* stanza holds the N values of its occurrences, in file order.
MultiValuedInOrder ==
    /\ Len(yielded) = Len(ClosedBlocks)
    /\ \A k \in 1..Len(ClosedBlocks) : \A t \in Multi :
          LET occ == Occurrences(BlockTagLines(Consumed, ClosedBlocks[k]), t)
          IN  /\ k <= Len(yielded)
              /\ t \in DOMAIN yielded[k] <=> occ # <<>>
              /\ DictGet(yielded[k], t, <<>>) = occ

\* a yielded record whose is_a list holds three values, not all the same
MultiValuedInOrderWitness ==
    /\ pc = "done"
    /\ \E k \in 1..Len(yielded) :
          /\ <<"is_a">> \in DOMAIN yielded[k]
          /\ Len(yielded[k][<<"is_a">>]) = 3
          /\ yielded[k][<<"is_a">>][1] # yielded[k][<<"is_a">>][2]

-----------------------------------------------------------------------------
(* parse_synonym_tag                                                       *)

Q == "\""

\* lines 67-69: the scope words of _SYNONYM_RE
ScopeWords == {"EXACT", "RELATED", "NARROW", "BROAD", "SYNONYM"}

\* ^"(.*?)"\s+ : the closing quotes that a blank follows; the lazy (.*?) stops at
\* the first of them, since all that follows \s+ in the pattern is optional
ClosingQuoteAt(raw) ==
    {j \in 2..(Len(raw) - 1) : raw[j] = Q /\ raw[j + 1] = SP}

\* line 73: _SYNONYM_RE.match(raw)
SynonymMatches(raw) ==
    /\ Len(raw) >= 1
    /\ raw[1] = Q
    /\ ClosingQuoteAt(raw) # {}

\* group 1
SynonymLabel(raw) == SubSeq(raw, 2, Min(ClosingQuoteAt(raw)) - 1)

\* the text after the closing quote and the blanks \s+ takes
AfterBlanks(raw) == LStrip(SubSeq(raw, Min(ClosingQuoteAt(raw)) + 1, Len(raw)))

\* group 2: one of the five scope words right after the blanks, or nothing ("")
SynonymGroup2(raw) ==
    IF AfterBlanks(raw) # <<>> /\ Head(AfterBlanks(raw)) \in ScopeWords
    THEN Head(AfterBlanks(raw))
    ELSE ""

\* line 77: m.group(2) or "EXACT"
ScopeOrDefault(g) == IF g = "" THEN "EXACT" ELSE g

\* lines 71-78; the third component is the constant 0
ParseSynonymTag(raw) ==
    IF ~SynonymMatches(raw)
    THEN [label |-> raw, scope |-> "EXACT"]
    ELSE [label |-> SynonymLabel(raw), scope |-> ScopeOrDefault(SynonymGroup2(raw))]

MaxBlanks == 2

Blanks(n) == [i \in 1..n |-> SP]

\* the synonym values the function is run on, made of a label (quoted or not),
\* blanks, a scope token or none, blanks, and an xref list or none
SynonymLabels ==
    {<<>>, <<"cell">>, <<"cell", SP, "growth">>, <<"a", "\\", Q, SP, "b">>}

SynonymTokens ==
    {<<>>, <<"EXACT">>, <<"RELATED">>, <<"NARROW">>, <<"BROAD">>, <<"SYNONYM">>,
     <<"FOO">>, <<"NARROW", "ER">>}

SynonymXrefs == {<<>>, <<"[", "]">>, <<"[", "x", "]">>}

SynonymParts ==
    [quoted : BOOLEAN, label : SynonymLabels, gap1 : 0..MaxBlanks,
     token : SynonymTokens, gap2 : 0..MaxBlanks, xrefs : SynonymXrefs]

RawOf(p) ==
    (IF p.quoted THEN <<Q>> \o p.label \o <<Q>> ELSE p.label)
    \o Blanks(p.gap1) \o p.token \o Blanks(p.gap2) \o p.xrefs

InitSyn ==
    /\ pc = "start"
    /\ syn_parts \in SynonymParts
    /\ syn_raw = RawOf(syn_parts)
    /\ syn_result = <<>>
    /\ IdleTC
    /\ IdlePO
    /\ IdleBuild

\* lines 73-75
SynNoMatch ==
    /\ pc = "start"
    /\ ~SynonymMatches(syn_raw)
    /\ syn_result' = ParseSynonymTag(syn_raw)
    /\ pc' = "done"
    /\ UNCHANGED <<syn_parts, syn_raw, notSyn>>

\* lines 73, 76-78
SynMatch ==
    /\ pc = "start"
    /\ SynonymMatches(syn_raw)
    /\ syn_result' = ParseSynonymTag(syn_raw)
    /\ pc' = "done"
    /\ UNCHANGED <<syn_parts, syn_raw, notSyn>>

NextSyn ==
    \/ SynNoMatch
    \/ SynMatch

SpecSyn == InitSyn /\ [][NextSyn]_vars

ScopeEnum == {"EXACT", "RELATED", "NARROW", "BROAD"}

\* the value reads "label" SCOPE [xrefs], each of SCOPE and [xrefs] optional,
\* with a blank after the closing quote
HasSynonymShape(p) ==
    /\ p.quoted
    /\ p.gap1 >= 1 \/ (p.token = <<>> /\ p.gap2 >= 1)

\* C4: the returned scope is one of EXACT, RELATED, NARROW, BROAD for every
\* value: it is SCOPE when the value reads "label" SCOPE [xrefs] with SCOPE one of
\* the four, EXACT when the scope token is omitted or unrecognized (SYNONYM
\* included), and EXACT with the whole raw string as label when the value does
\* not have the shape.
SynonymScopeNormalized ==
    pc = "done" =>
        /\ syn_result.scope \in ScopeEnum
        /\ (HasSynonymShape(syn_parts) /\ Len(syn_parts.token) = 1
              /\ syn_parts.token[1] \in ScopeEnum)
              => syn_result.scope = syn_parts.token[1]
        /\ (HasSynonymShape(syn_parts)
              /\ ~(Len(syn_parts.token) = 1 /\ syn_parts.token[1] \in ScopeEnum))
              => syn_result.scope = "EXACT"
        /\ ~HasSynonymShape(syn_parts)
              => syn_result = [label |-> syn_raw, scope |-> "EXACT"]

-----------------------------------------------------------------------------
(* build: the values it computes                                           *)

NoneValue == <<"<None>">>

\* line 244: go_id.startswith("GO:")
IsGoId(v) == v # <<>> /\ v[1] = "GO:"

\* line 243
StanzaId(s) == DictGet(s, <<"id">>, <<>>)

\* line 246: stanza.get("is_obsolete") == "true"
IsObsolete(s) == DictGet(s, <<"is_obsolete">>, NoneValue) = <<"true">>

IsActiveStanza(s) == IsGoId(StanzaId(s)) /\ ~IsObsolete(s)

IsObsoleteStanza(s) == IsGoId(StanzaId(s)) /\ IsObsolete(s)

\* lines 242-249
ActiveTerms(recs) == SelectSeq(recs, IsActiveStanza)

ObsoleteTerms(recs) == SelectSeq(recs, IsObsoleteStanza)

\* line 255
ActiveIds(ts) == {StanzaId(ts[i]) : i \in DOMAIN ts}

\* lines 227-231 and NS_MAP.get(ns, ("??", "??")) of lines 272, 288, 331
NsShortDefaultBP(ns) ==
    IF ns = <<"molecular_function">> THEN "MF"
    ELSE IF ns = <<"cellular_component">> THEN "CC"
    ELSE "BP"

NsShort(ns) ==
    IF ns = <<"biological_process">> THEN "BP"
    ELSE IF ns = <<"molecular_function">> THEN "MF"
    ELSE IF ns = <<"cellular_component">> THEN "CC"
    ELSE "??"

ShortOf(t) == NsShort(DictGet(t, <<"namespace">>, <<>>))

\* re.sub(r'"\s*\[.*?\]\s*$', '', defn): cut at the first quote that blanks, a
\* bracketed citation and blanks up to the end follow
CitationAt(v) ==
    {i \in 1..Len(v) :
        /\ v[i] = Q
        /\ \E j \in (i + 1)..Len(v), k \in (i + 2)..Len(v) :
              /\ j < k
              /\ v[j] = "["
              /\ v[k] = "]"
              /\ \A m \in (i + 1)..(j - 1) : v[m] = SP
              /\ \A m \in (k + 1)..Len(v) : v[m] = SP}

RECURSIVE LStripQuotes(_)
LStripQuotes(v) == IF v # <<>> /\ Head(v) = Q THEN LStripQuotes(Tail(v)) ELSE v

\* lines 273-276
DefinitionOf(t) ==
    LET defn == DictGet(t, <<"def">>, NoneValue)
    IN  IF defn = NoneValue \/ defn = <<>> THEN defn
        ELSE Strip(LStripQuotes(
                 IF CitationAt(defn) = {} THEN defn
                 ELSE SubSeq(defn, 1, Min(CitationAt(defn)) - 1)))

\* lines 277, 292
TermRow(t) == <<StanzaId(t), DictGet(t, <<"name">>, <<>>), ShortOf(t), DefinitionOf(t)>>

\* lines 269-277, 285-292
TermRows(ts) == [i \in DOMAIN ts |-> TermRow(ts[i])]

\* lines 305-307
RECURSIVE TextSynonymRows(_, _)
TextSynonymRows(id, raws) ==
    IF raws = <<>> THEN <<>>
    ELSE LET r == ParseSynonymTag(Head(raws))
         IN  <<<<id, r.label, NoneValue, r.scope, 0>>>> \o TextSynonymRows(id, Tail(raws))

\* lines 310-311
AltIdRows(id, alts) == [i \in DOMAIN alts |-> <<id, alts[i], alts[i], "EXACT", 1>>]

\* lines 300-311
RECURSIVE SynonymRows(_)
SynonymRows(ts) ==
    IF ts = <<>> THEN <<>>
    ELSE TextSynonymRows(StanzaId(Head(ts)), DictGet(Head(ts), <<"synonym">>, <<>>))
         \o AltIdRows(StanzaId(Head(ts)), DictGet(Head(ts), <<"alt_id">>, <<>>))
         \o SynonymRows(Tail(ts))

\* str.split(): the maximal runs without a blank
FirstBlank(v) == Min({i \in 1..Len(v) : v[i] = SP} \cup {Len(v) + 1})

RECURSIVE Split(_)
Split(v) ==
    LET w == LStrip(v)
    IN  IF w = <<>> THEN <<>>
        ELSE <<SubSeq(w, 1, FirstBlank(w) - 1)>> \o Split(SubSeq(w, FirstBlank(w), Len(w)))

\* lines 338, 347: `if parent_id in active_ids`
ParentIsActiveAlways(parent, active) == TRUE

ParentIsActive(parent, active) == parent \in active

\* line 337: raw.split()[0] raises IndexError when the value holds no token
IsARaises(t) ==
    \E i \in DOMAIN DictGet(t, <<"is_a">>, <<>>) : Split(t[<<"is_a">>][i]) = <<>>

\* lines 336-340
RECURSIVE IsARows(_, _, _)
IsARows(id, raws, active) ==
    IF raws = <<>> THEN <<>>
    ELSE LET parent == Split(Head(raws))[1]
         IN  (IF ParentIsActive(parent, active)
              THEN <<<<id, parent, <<"is_a">>>>>> ELSE <<>>)
             \o IsARows(id, Tail(raws), active)

\* lines 343-349
RECURSIVE RelationshipRows(_, _, _)
RelationshipRows(id, raws, active) ==
    IF raws = <<>> THEN <<>>
    ELSE LET parts == Split(Head(raws))
         IN  (IF Len(parts) >= 2 /\ ParentIsActive(parts[2], active)
              THEN <<<<id, parts[2], parts[1]>>>> ELSE <<>>)
             \o RelationshipRows(id, Tail(raws), active)

\* lines 329-349 for one term
EdgeRowsOf(t, active) ==
    IsARows(StanzaId(t), DictGet(t, <<"is_a">>, <<>>), active)
    \o RelationshipRows(StanzaId(t), DictGet(t, <<"relationship">>, <<>>), active)

\* lines 328-349: parent_rows[ns]
RECURSIVE ParentRows(_, _, _)
ParentRows(ts, active, ns) ==
    IF ts = <<>> THEN <<>>
    ELSE (IF ShortOf(Head(ts)) = ns THEN EdgeRowsOf(Head(ts), active) ELSE <<>>)
         \o ParentRows(Tail(ts), active, ns)

\* lines 332-337: the loop reaches a term of a partition whose is_a value is empty
CollectRaises(ts) ==
    \E i \in DOMAIN ts : ShortOf(ts[i]) \in Range(Partitions) /\ IsARaises(ts[i])

\* lines 340, 349: direct_children[ns][parent_id].append(go_id), row by row
RECURSIVE DirectChildren(_)
DirectChildren(rows) ==
    IF rows = <<>> THEN <<>>
    ELSE LET d == DirectChildren(SubSeq(rows, 1, Len(rows) - 1))
             r == rows[Len(rows)]
         IN  DictPut(d, r[2], Append(DictGet(d, r[2], <<>>), r[1]))

\* transitive_closure as build calls it (line 364). The sets are walked in one
\* order (SomeOrder); the run of transitive_closure above walks them in every order.
SomeOrder(S) == CHOOSE q \in Orders(S) : TRUE

RECURSIVE Traverse(_, _, _, _, _)
Traverse(ch, anc, vis, q, out) ==
    IF q = <<>> THEN out
    ELSE LET node == q[Len(q)]
         IN  IF InVisited(node, vis) THEN Traverse(ch, anc, vis, PopRest(q), out)
             ELSE Traverse(ch, anc, vis \cup {node},
                           PopRest(q) \o SomeOrder(ChildrenGet(ch, node)),
                           Append(out, <<anc, node>>))

RECURSIVE ClosureOver(_, _, _)
ClosureOver(ch, nodes, out) ==
    IF nodes = {} THEN out
    ELSE LET a == CHOOSE n \in nodes : TRUE
         IN  ClosureOver(ch, nodes \ {a},
                         Traverse(ch, a, {}, SomeOrder(ChildrenGet(ch, a)), out))

TransitiveClosure(d) == ClosureOver(BuildChildren(d), BuildAllNodes(d), <<>>)

\* lines 257-260: executescript runs the DDL outside any transaction
Connected == [exists |-> TRUE, schema |-> TRUE, txn |-> EmptyTables, db |-> EmptyTables]

\* con.executemany("INSERT INTO ..."): sqlite3 opens a transaction before the
\* first INSERT and leaves it open; nothing is committed before line 379
InsertRowsAutocommit(st, table, rows) == [st EXCEPT !.db[table] = @ \o rows]

InsertRows(st, table, rows) == [st EXCEPT !.txn[table] = @ \o rows]

\* INSERT OR IGNORE (lines 263, 279, 294) and INSERT OR REPLACE into the empty
\* map_counts (line 377): of the rows with one key, the first is kept
RECURSIVE FirstPerKey(_, _)
FirstPerKey(rows, seen) ==
    IF rows = <<>> THEN <<>>
    ELSE IF Head(rows)[1] \in seen THEN FirstPerKey(Tail(rows), seen)
    ELSE <<Head(rows)>> \o FirstPerKey(Tail(rows), seen \cup {Head(rows)[1]})

InsertOrIgnore(st, table, rows) == InsertRows(st, table, FirstPerKey(rows, {}))

\* line 379
Commit(st) ==
    [st EXCEPT !.db = [t \in TableNames |-> st.db[t] \o st.txn[t]],
               !.txn = EmptyTables]

\* the process ends with a transaction open: it is rolled back
Rollback(st) == [st EXCEPT !.txn = EmptyTables]

\* lines 265
OntologyRows ==
    <<<<"BP", "biological process">>, <<"MF", "molecular function">>,
      <<"CC", "cellular component">>>>

\* lines 372-376
CountRows(ts, obs, syn) ==
    <<<<"go_term", Len(ts)>>, <<"go_obsolete", Len(obs)>>, <<"go_synonym", Len(syn)>>>>

-----------------------------------------------------------------------------
(* build and the command line: the run                                     *)

MaxTerms == 2
MaxArgs == 3

GoId(n) == <<"GO:", n>>

IdLine(id) == <<"id", ":", SP>> \o id

NamespaceLine(ns) == <<"namespace", ":", SP, ns>>

ObsoleteLine == <<"is_obsolete", ":", SP, "true">>

IsALine(id) == <<"is_a", ":", SP>> \o id

\* the tag lines a block ends with: none; an is_a; a relationship with a
\* comment; an is_a whose value is empty once the comment is cut; a relationship
\* of one token before an is_a; an is_a to a known and one to an unknown term
EdgeLineChoices ==
    { <<>>,
      <<IsALine(GoId("1"))>>,
      <<<<"relationship", ":", SP, "part_of", SP, "GO:", "2", SP, "!", SP, "two">>>>,
      <<<<"is_a", ":", SP, SP, "!", SP, "none">>>>,
      <<<<"relationship", ":", SP, "part_of">>, IsALine(GoId("1"))>>,
      <<IsALine(GoId("1")), IsALine(GoId("9"))>> }

TermBlock(id, ns, edges) ==
    <<TermMarker, IdLine(id), NamespaceLine(ns)>> \o edges

\* the blocks the input files are made of
TermBlocks ==
    \* active terms of a partition and of an unrecognized namespace
    {TermBlock(GoId("1"), ns, e) :
        ns \in {"biological_process", "bogus"}, e \in EdgeLineChoices}
    \cup
    {TermBlock(GoId("2"), ns, e) :
        ns \in {"biological_process", "bogus"}, e \in {<<>>, <<IsALine(GoId("1"))>>}}
    \cup
    { \* an active term of a second partition
      TermBlock(GoId("1"), "molecular_function",
                <<<<"relationship", ":", SP, "part_of", SP, "GO:", "2">>>>),
      \* obsolete terms, with and without an edge of their own
      <<TermMarker, IdLine(GoId("1")), NamespaceLine("biological_process"), ObsoleteLine>>,
      <<TermMarker, IdLine(GoId("2")), NamespaceLine("biological_process"), ObsoleteLine,
        IsALine(GoId("1"))>>,
      \* an active term without a namespace tag
      <<TermMarker, IdLine(GoId("2")), IsALine(GoId("1"))>> }
    \cup
    { \* a foreign identifier, and no identifier
      TermBlock(<<"X:", "1">>, "biological_process", <<IsALine(GoId("1"))>>),
      <<TermMarker, NamespaceLine("biological_process"), IsALine(GoId("1"))>>,
      \* a term with a name, a definition, synonyms and an alt_id
      <<TermMarker, IdLine(GoId("1")), NamespaceLine("cellular_component"),
        <<"name", ":", SP, "cell">>,
        <<"def", ":", SP, Q, "a", SP, "cell", Q, SP, "[", "x", "]">>,
        <<"synonym", ":", SP, Q, "cell", SP, "growth", Q, SP, "NARROW", SP, "[", "]">>,
        <<"synonym", ":", SP, Q, "c", Q, SP, "SYNONYM", SP, "[", "]">>,
        <<"alt_id", ":", SP, "GO:", "7">>>>,
      \* a non-Term stanza
      <<<<"[", "Typedef", "]">>, IdLine(GoId("2")), IsALine(GoId("1"))>> }

RECURSIVE Concat(_)
Concat(blocks) == IF blocks = <<>> THEN <<>> ELSE Head(blocks) \o Concat(Tail(blocks))

InputFiles == {Concat(bs) : bs \in SeqsUpTo(TermBlocks, MaxTerms)}

\* line 395: len(sys.argv) counts the program name
ExpectedArgc == 3

ArgcOkAtLeast(n) == n + 1 >= ExpectedArgc

ArgcOk(n) == n + 1 = ExpectedArgc

\* the command is started with nargs positional arguments; the first names the
\* input file, which only build reads (with another count no file is read)
InitBuild ==
    /\ pc = "main"
    /\ nargs \in 0..MaxArgs
    /\ file \in (IF ArgcOk(nargs) THEN InputFiles ELSE {<<>>})
    /\ pos = 0
    /\ stanza = NoStanza
    /\ yielded = <<>>
    /\ terms = <<>>
    /\ obsolete = <<>>
    /\ active_ids = {}
    /\ term_rows = <<>>
    /\ syn_rows = <<>>
    /\ parent_rows = EmptyPartitions
    /\ direct_children = EmptyPartitions
    /\ part = 0
    /\ store = NoStore
    /\ exit_status = -1
    /\ error = ""
    /\ raised_at = ""
    /\ IdleTC
    /\ IdleSyn

\* lines 395-396: sys.exit(message) prints the message and exits with status 1
BMainUsage ==
    /\ pc = "main"
    /\ ~ArgcOk(nargs)
    /\ pc' = "exited"
    /\ error' = "usage"
    /\ exit_status' = 1
    /\ raised_at' = pc
    /\ UNCHANGED <<nargs, terms, obsolete, active_ids, syn_rows, parent_rows,
                   direct_children, part, store, term_rows, notBuild>>

\* line 397
BMainBuild ==
    /\ pc = "main"
    /\ ArgcOk(nargs)
    /\ pc' = "parse"
    /\ UNCHANGED <<nargs, terms, obsolete, active_ids, syn_rows, parent_rows,
                   direct_children, part, store, exit_status, error,
                   term_rows, raised_at, notBuild>>

\* lines 239-255: the whole input is parsed and classified
BParse ==
    /\ pc = "parse"
    /\ terms' = ActiveTerms(ParseObo(file))
    /\ obsolete' = ObsoleteTerms(ParseObo(file))
    /\ active_ids' = ActiveIds(ActiveTerms(ParseObo(file)))
    /\ pc' = "connect"
    /\ UNCHANGED <<nargs, syn_rows, parent_rows, direct_children, part,
                   store, exit_status, error, term_rows, raised_at, notBuild>>

\* line 38: the input cannot be opened or read; the exception ends the process
BParseFails ==
    /\ pc = "parse"
    /\ pc' = "raised"
    /\ error' = "OSError"
    /\ exit_status' = 1
    /\ raised_at' = pc
    /\ UNCHANGED <<nargs, terms, obsolete, active_ids, syn_rows, parent_rows,
                   direct_children, part, store, term_rows, notBuild>>

\* lines 257-260
BConnect ==
    /\ pc = "connect"
    /\ store' = Connected
    /\ pc' = "ontology"
    /\ UNCHANGED <<nargs, terms, obsolete, active_ids, syn_rows, parent_rows,
                   direct_children, part, exit_status, error, term_rows,
                   raised_at, notBuild>>

\* lines 257-260 fail: the file may have been created, the schema is not complete
BConnectFails ==
    /\ pc = "connect"
    /\ \E made \in BOOLEAN : store' = [NoStore EXCEPT !.exists = made]
    /\ pc' = "raised"
    /\ error' = "sqlite3.Error"
    /\ exit_status' = 1
    /\ raised_at' = pc
    /\ UNCHANGED <<nargs, terms, obsolete, active_ids, syn_rows, parent_rows,
                   direct_children, part, term_rows, notBuild>>

\* lines 263-266
BInsertOntology ==
    /\ pc = "ontology"
    /\ store' = InsertOrIgnore(store, "go_ontology", OntologyRows)
    /\ pc' = "terms"
    /\ UNCHANGED <<nargs, terms, obsolete, active_ids, syn_rows, parent_rows,
                   direct_children, part, exit_status, error, term_rows,
                   raised_at, notBuild>>

\* lines 269-282
BInsertTerms ==
    /\ pc = "terms"
    /\ store' = InsertOrIgnore(store, "go_term", TermRows(terms))
    /\ term_rows' = TermRows(terms)
    /\ pc' = "obsolete"
    /\ UNCHANGED <<nargs, terms, obsolete, active_ids, syn_rows, parent_rows,
                   direct_children, part, exit_status, error, raised_at,
                   notBuild>>

\* lines 285-297
BInsertObsolete ==
    /\ pc = "obsolete"
    /\ store' = InsertOrIgnore(store, "go_obsolete", TermRows(obsolete))
    /\ pc' = "synonyms"
    /\ UNCHANGED <<nargs, terms, obsolete, active_ids, syn_rows, parent_rows,
                   direct_children, part, exit_status, error, term_rows,
                   raised_at, notBuild>>

\* lines 300-316
BInsertSynonyms ==
    /\ pc = "synonyms"
    /\ syn_rows' = SynonymRows(terms)
    /\ store' = InsertRows(store, "go_synonym", SynonymRows(terms))
    /\ pc' = "edges"
    /\ UNCHANGED <<nargs, terms, obsolete, active_ids, parent_rows,
                   direct_children, part, exit_status, error, term_rows,
                   raised_at, notBuild>>

\* lines 320-349
BCollectEdges ==
    /\ pc = "edges"
    /\ ~CollectRaises(terms)
    /\ parent_rows' = [i \in DOMAIN Partitions |-> ParentRows(terms, active_ids, Partitions[i])]
    /\ direct_children' =
          [i \in DOMAIN Partitions |->
              DirectChildren(ParentRows(terms, active_ids, Partitions[i]))]
    /\ part' = 1
    /\ pc' = "partitions"
    /\ UNCHANGED <<nargs, terms, obsolete, active_ids, syn_rows, store,
                   exit_status, error, term_rows, raised_at, notBuild>>

\* line 337 raises IndexError: the exception ends the process, and the open
\* transaction is rolled back
BCollectEdgesRaises ==
    /\ pc = "edges"
    /\ CollectRaises(terms)
    /\ store' = Rollback(store)
    /\ pc' = "raised"
    /\ error' = "IndexError"
    /\ exit_status' = 1
    /\ raised_at' = pc
    /\ UNCHANGED <<nargs, terms, obsolete, active_ids, syn_rows, parent_rows,
                   direct_children, part, term_rows, notBuild>>

\* lines 357-369, one pass of the loop over ns_tables
BInsertPartition ==
    /\ pc = "partitions"
    /\ store' = InsertRows(
                   InsertRows(store, ParentsTable(Partitions[part]), parent_rows[part]),
                   OffspringTable(Partitions[part]),
                   TransitiveClosure(direct_children[part]))
    /\ IF part < Len(Partitions)
       THEN part' = part + 1 /\ pc' = pc
       ELSE part' = part /\ pc' = "counts"
    /\ UNCHANGED <<nargs, terms, obsolete, active_ids, syn_rows, parent_rows,
                   direct_children, exit_status, error, term_rows, raised_at,
                   notBuild>>

\* lines 372-377
BInsertCounts ==
    /\ pc = "counts"
    /\ store' = InsertOrIgnore(store, "map_counts", CountRows(terms, obsolete, syn_rows))
    /\ pc' = "commit"
    /\ UNCHANGED <<nargs, terms, obsolete, active_ids, syn_rows, parent_rows,
                   direct_children, part, exit_status, error, term_rows,
                   raised_at, notBuild>>

\* line 379
BCommit ==
    /\ pc = "commit"
    /\ store' = Commit(store)
    /\ pc' = "close"
    /\ UNCHANGED <<nargs, terms, obsolete, active_ids, syn_rows, parent_rows,
                   direct_children, part, exit_status, error, term_rows,
                   raised_at, notBuild>>

\* lines 380-389
BClose ==
    /\ pc = "close"
    /\ pc' = "done"
    /\ exit_status' = 0
    /\ UNCHANGED <<nargs, terms, obsolete, active_ids, syn_rows, parent_rows,
                   direct_children, part, store, error, term_rows, raised_at,
                   notBuild>>

\* a statement of lines 263-388 fails on the store: the exception ends the
\* process, and the open transaction is rolled back
BStoreFails ==
    /\ pc \in {"ontology", "terms", "obsolete", "synonyms", "partitions",
               "counts", "commit", "close"}
    /\ store' = Rollback(store)
    /\ pc' = "raised"
    /\ error' = "sqlite3.Error"
    /\ exit_status' = 1
    /\ raised_at' = pc
    /\ UNCHANGED <<nargs, terms, obsolete, active_ids, syn_rows, parent_rows,
                   direct_children, part, term_rows, notBuild>>

NextBuild ==
    \/ BMainUsage
    \/ BMainBuild
    \/ BParse
    \/ BParseFails
    \/ BConnect
    \/ BConnectFails
    \/ BInsertOntology
    \/ BInsertTerms
    \/ BInsertObsolete
    \/ BInsertSynonyms
    \/ BCollectEdges
    \/ BCollectEdgesRaises
    \/ BInsertPartition
    \/ BInsertCounts
    \/ BCommit
    \/ BClose
    \/ BStoreFails

SpecBuild == InitBuild /\ [][NextBuild]_vars

\* what the input says, read off the file: the stanzas, the identifiers of the
\* stanzas that are not obsolete, and the namespaces with a partition
Stanzas == ParseObo(file)

StatedObsolete(s) == <<"is_obsolete">> \in DOMAIN s /\ s[<<"is_obsolete">>] = <<"true">>

ActiveSet ==
    LET stated == Range(Stanzas)
    IN  {StanzaId(s) : s \in {t \in stated : IsGoId(StanzaId(t)) /\ ~StatedObsolete(t)}}

PartitionOf(s) ==
    LET ns == DictGet(s, <<"namespace">>, <<>>)
    IN  CASE ns = <<"biological_process">> -> 1
          [] ns = <<"molecular_function">> -> 2
          [] ns = <<"cellular_component">> -> 3
          [] OTHER -> 0

\* the direct-edge rows and the closure pairs of partition i, computed or stored
EdgeRows(i) ==
    Range(parent_rows[i]) \cup Range(store.txn[ParentsTable(Partitions[i])])
    \cup Range(store.db[ParentsTable(Partitions[i])])

ClosurePairs(i) ==
    Range(store.txn[OffspringTable(Partitions[i])])
    \cup Range(store.db[OffspringTable(Partitions[i])])

\* the parents the edge tags of stanza t name
NamedParents(t) ==
    {Split(v)[1] : v \in {w \in Range(DictGet(t, <<"is_a">>, <<>>)) : Split(w) # <<>>}}
    \cup {Split(v)[2] :
            v \in {w \in Range(DictGet(t, <<"relationship">>, <<>>)) : Len(Split(w)) >= 2}}

\* C2: no stanza whose is_obsolete is "true" is among the active terms, and in
\* each partition every direct-edge row and every closure pair names only
\* identifiers of the active set (an edge to another parent is dropped).
ActiveOnly ==
    LET active == ActiveSet IN
    /\ \A k \in DOMAIN terms : ~StatedObsolete(terms[k])
    /\ \A k \in DOMAIN term_rows : term_rows[k][1] \in active
    /\ \A i \in DOMAIN Partitions :
          /\ \A r \in EdgeRows(i) : r[1] \in active /\ r[2] \in active
          /\ \A c \in ClosurePairs(i) : c[1] \in active /\ c[2] \in active

\* a finished run where an obsolete stanza has an edge tag, an edge to a parent
\* outside the active set was dropped and another edge was kept
ActiveOnlyWitness ==
    /\ pc = "done"
    /\ \E k \in DOMAIN obsolete : <<"is_a">> \in DOMAIN obsolete[k]
    /\ \E k \in DOMAIN terms :
          /\ PartitionOf(terms[k]) # 0
          /\ NamedParents(terms[k]) \ ActiveSet # {}
          /\ \E r \in EdgeRows(PartitionOf(terms[k])) : r[1] = StanzaId(terms[k])

\* C5 as stated: zero or one argument ends in the usage exit without a build, and
\* three arguments run the build as two do.
UsageOnlyWhenArgumentsMissing ==
    /\ (nargs \in {0, 1} /\ pc # "main") =>
          /\ pc = "exited"
          /\ error = "usage"
          /\ exit_status # 0
          /\ ~store.exists
    /\ nargs = 3 => pc # "exited"

\* C5, amended: every count of arguments other than two ends in the usage exit
\* with a non-zero status and without a build; two arguments run the build.
UsageOnWrongCount ==
    /\ (nargs # 2 /\ pc # "main") =>
          /\ pc = "exited"
          /\ error = "usage"
          /\ exit_status # 0
          /\ ~store.exists
          /\ terms = <<>>
    /\ nargs = 2 => pc # "exited" /\ error # "usage"

\* the usage exit of a command with three arguments
UsageOnWrongCountWitness ==
    /\ pc = "exited"
    /\ nargs = 3
    /\ exit_status = 1

\* C6 as stated: no tag value of a Term stanza makes the run raise, a malformed
\* edge tag gives no edge, and every well-formed edge tag to an active parent
\* still gives its row.
MalformedTolerated ==
    /\ error # "IndexError"
    /\ pc = "done" =>
          \A k \in {j \in DOMAIN terms : PartitionOf(terms[j]) # 0} :
              \A p \in NamedParents(terms[k]) \cap ActiveSet :
                  \E r \in EdgeRows(PartitionOf(terms[k])) :
                      r[1] = StanzaId(terms[k]) /\ r[2] = p

\* C7 as stated: an active term without a recognized namespace has its row with
\* the label "??", and its identifier is in no direct-edge row and no closure
\* pair of any partition, neither as child nor as parent (read for the terms
\* whose identifier no other active stanza carries).
UnknownNamespaceNowhere ==
    \A k \in {j \in DOMAIN terms :
                /\ PartitionOf(terms[j]) = 0
                /\ \A h \in DOMAIN terms : h # j => StanzaId(terms[h]) # StanzaId(terms[j])} :
        /\ (k \in DOMAIN term_rows => term_rows[k][3] = "??")
        /\ \A i \in DOMAIN Partitions :
              /\ \A r \in EdgeRows(i) :
                    r[1] # StanzaId(terms[k]) /\ r[2] # StanzaId(terms[k])
              /\ \A c \in ClosurePairs(i) :
                    c[1] # StanzaId(terms[k]) /\ c[2] # StanzaId(terms[k])

\* C7, amended: an active term without a recognized namespace has its row with
\* the label "??" and gives no edge of its own: the child of every direct-edge
\* row, and the descendant of every closure pair, of a partition is the
\* identifier of an active stanza whose namespace is that partition's.
UnknownNamespaceNoOwnEdge ==
    /\ \A k \in DOMAIN terms : (PartitionOf(terms[k]) = 0 /\ k \in DOMAIN term_rows) =>
              term_rows[k][1] = StanzaId(terms[k]) /\ term_rows[k][3] = "??"
    /\ (pc \notin {"main", "parse", "connect", "ontology", "terms"} /\ error = "")
          => Len(term_rows) = Len(terms)
    /\ \A i \in DOMAIN Partitions :
          /\ \A r \in EdgeRows(i) :
                \E k \in DOMAIN terms :
                    StanzaId(terms[k]) = r[1] /\ PartitionOf(terms[k]) = i
          /\ \A c \in ClosurePairs(i) :
                \E k \in DOMAIN terms :
                    StanzaId(terms[k]) = c[2] /\ PartitionOf(terms[k]) = i

\* a finished run where a term without a recognized namespace has an edge tag of
\* its own, is no row's child, and is the parent in a row of another term
UnknownNamespaceNoOwnEdgeWitness ==
    /\ pc = "done"
    /\ \E k \in DOMAIN terms :
          /\ PartitionOf(terms[k]) = 0
          /\ NamedParents(terms[k]) \cap ActiveSet # {}
          /\ \A i \in DOMAIN Partitions : \A r \in EdgeRows(i) : r[1] # StanzaId(terms[k])
          /\ \E i \in DOMAIN Partitions : \E r \in EdgeRows(i) : r[2] = StanzaId(terms[k])
          /\ \E i \in DOMAIN Partitions : \E c \in ClosurePairs(i) : c[1] = StanzaId(terms[k])

\* every row of a finished run, table by table
FullTables ==
    [t \in TableNames |->
        IF t = "go_ontology" THEN OntologyRows
        ELSE IF t = "go_term" THEN FirstPerKey(TermRows(terms), {})
        ELSE IF t = "go_obsolete" THEN FirstPerKey(TermRows(obsolete), {})
        ELSE IF t = "go_synonym" THEN syn_rows
        ELSE IF t = "map_counts" THEN CountRows(terms, obsolete, syn_rows)
        ELSE IF \E i \in DOMAIN Partitions : t = ParentsTable(Partitions[i])
        THEN parent_rows[CHOOSE i \in DOMAIN Partitions : t = ParentsTable(Partitions[i])]
        ELSE TransitiveClosure(
                direct_children[CHOOSE i \in DOMAIN Partitions :
                                    t = OffspringTable(Partitions[i])])]

\* C8: the store is opened only after the whole input is parsed, the committed
\* rows are none or all, and a run that the input or a store write ends leaves
\* no row, committed or pending.
StoreAllOrNothing ==
    /\ store.exists => (pc \notin {"main", "parse", "exited"} /\ raised_at # "parse")
    /\ store.db = EmptyTables \/ (store.db = FullTables /\ store.txn = EmptyTables)
    /\ (pc = "raised" /\ raised_at # "close") =>
          store.db = EmptyTables /\ store.txn = EmptyTables

\* a run that a failing store write ends after terms, edges and closure pairs
\* were inserted: the store exists and holds no row
StoreAllOrNothingWitness ==
    /\ pc = "raised"
    /\ raised_at = "counts"
    /\ terms # <<>>
    /\ \E i \in DOMAIN Partitions : parent_rows[i] # <<>>
    /\ store.exists
    /\ store.db = EmptyTables
    /\ store.txn = EmptyTables

-----------------------------------------------------------------------------
(* transitive_closure: the run                                             *)

InitTC ==
    /\ pc = "start"
    /\ direct_edges \in AdjacencyInputs
    /\ children = <<>>
    /\ all_nodes = {}
    /\ todo = {}
    /\ ancestor = 0
    /\ visited = {}
    /\ queue = <<>>
    /\ pairs = EmptyBag
    /\ expanded = [n \in Node |-> 0]
    /\ IdlePO
    /\ IdleSyn
    /\ IdleBuild

\* lines 94-103
TCBuildIndex ==
    /\ pc = "start"
    /\ children' = BuildChildren(direct_edges)
    /\ all_nodes' = BuildAllNodes(direct_edges)
    /\ todo' = BuildAllNodes(direct_edges)
    /\ pairs' = EmptyBag
    /\ pc' = "loop"
    /\ UNCHANGED <<direct_edges, ancestor, visited, queue, expanded>>
    /\ UNCHANGED notTC

\* lines 104-107, reached at the start and when `while queue` finds the frontier
\* empty: the next ancestor, in the set's iteration order
TCNextAncestor ==
    /\ pc = "loop"
    /\ queue = <<>>
    /\ \E a \in todo :
        /\ ancestor' = a
        /\ todo' = todo \ {a}
        /\ \E q \in Orders(ChildrenGet(children, a)) : queue' = q
    /\ visited' = {}
    /\ expanded' = [n \in Node |-> 0]
    /\ UNCHANGED <<pc, direct_edges, children, all_nodes, pairs>>
    /\ UNCHANGED notTC

\* lines 108-111: the popped node was visited before
TCSkipVisited ==
    /\ pc = "loop"
    /\ queue # <<>>
    /\ InVisited(queue[Len(queue)], visited)
    /\ queue' = PopRest(queue)
    /\ UNCHANGED <<pc, direct_edges, children, all_nodes, todo, ancestor,
                   visited, pairs, expanded>>
    /\ UNCHANGED notTC

\* lines 108-114: the popped node is new
TCVisit ==
    /\ pc = "loop"
    /\ queue # <<>>
    /\ LET node == queue[Len(queue)] IN
        /\ ~InVisited(node, visited)
        /\ visited' = visited \cup {node}
        /\ pairs' = pairs (+) SetToBag({<<ancestor, node>>})
        /\ \E q \in Orders(ChildrenGet(children, node)) :
              queue' = PopRest(queue) \o q
        /\ expanded' = [expanded EXCEPT ![node] = @ + 1]
    /\ UNCHANGED <<pc, direct_edges, children, all_nodes, todo, ancestor>>
    /\ UNCHANGED notTC

\* line 115: the frontier is empty and the for loop is exhausted
TCReturn ==
    /\ pc = "loop"
    /\ queue = <<>>
    /\ todo = {}
    /\ pc' = "done"
    /\ UNCHANGED <<direct_edges, children, all_nodes, todo, ancestor, visited,
                   queue, pairs, expanded>>
    /\ UNCHANGED notTC

NextTC ==
    \/ TCBuildIndex
    \/ TCNextAncestor
    \/ TCSkipVisited
    \/ TCVisit
    \/ TCReturn

SpecTC == InitTC /\ [][NextTC]_vars

\* the while and for loops run on: the function is one sequential computation
SpecTCFair == InitTC /\ [][NextTC]_vars /\ WF_vars(NextTC)

\* what the argument says, read off the argument itself: the direct children of
\* n, and the nodes reachable from n through one or more direct edges
DirectOf(d, n) == IF n \in DOMAIN d THEN Range(d[n]) ELSE {}

RECURSIVE ReachClose(_, _)
ReachClose(d, S) ==
    LET S2 == S \cup UNION {DirectOf(d, n) : n \in S}
    IN  IF S2 = S THEN S ELSE ReachClose(d, S2)

Reach(d, a) == ReachClose(d, DirectOf(d, a))

Acyclic(d) == \A n \in Node : n \notin Reach(d, n)

Times(b, x) == IF x \in DOMAIN b THEN b[x] ELSE 0

\* C1: on an acyclic input the returned list holds (A, D) exactly once when D is
\* reachable from A through one or more direct edges and never otherwise; a node
\* with no outgoing edge is no pair's ancestor and no pair (A, A) is produced.
ClosureExact ==
    (pc = "done" /\ Acyclic(direct_edges)) =>
        /\ \A a \in Node, d \in Node :
              Times(pairs, <<a, d>>) = IF d \in Reach(direct_edges, a) THEN 1 ELSE 0
        /\ \A a \in Node : Times(pairs, <<a, a>>) = 0
        /\ \A a \in Node : DirectOf(direct_edges, a) = {} =>
              \A d \in Node : Times(pairs, <<a, d>>) = 0

\* a finished run on an acyclic input where a node is reached along two paths
ClosureExactWitness ==
    /\ pc = "done"
    /\ Acyclic(direct_edges)
    /\ \E a \in Node, b \in Node, c \in Node :
          /\ {b, c} \subseteq DirectOf(direct_edges, a)
          /\ c \in DirectOf(direct_edges, b)
          /\ Times(pairs, <<a, c>>) = 1

\* C10: the function returns on every finite input, cyclic ones included, and
\* within one ancestor's traversal no node is expanded (marked visited, its
\* children pushed) more than once.
ClosureTerminates ==
    /\ [](\A n \in Node : expanded[n] <= 1)
    /\ <>(pc = "done")

\* a finished run on a cyclic input, where a node is its own descendant
ClosureTerminatesWitness ==
    /\ pc = "done"
    /\ ~Acyclic(direct_edges)
    /\ \E a \in Node : Times(pairs, <<a, a>>) = 1

====
